---- MODULE Spec2Model ----
(***************************************************************************)
(* Model of RustGraphIsomorphism: the k-WL signature (src/src/k_wl.rs) and *)
(* the bucketed generation of non-isomorphic graphs                        *)
(* (src/src/generate_graphs.rs).                                           *)
(*                                                                         *)
(* A graph (petgraph UnGraph<(), ()>) is a record [n, e]: n nodes with the *)
(* dense indices 0 .. n-1 and a set e of edges, each a two-element set of  *)
(* node indices.  A Rust String is a sequence of atoms: a character is its *)
(* byte (the digits of a degree are 48 .. 57) and the 64-character hex     *)
(* digest that deterministic_hash returns is the single atom 256 + id.     *)
(*                                                                         *)
(* deterministic_hash (SipHash of the value's Hash stream, then SHA-256)   *)
(* is modelled as a collision-free hash whose values are not known in      *)
(* advance: the variable htab holds the digest id of every stream hashed   *)
(* so far in the process, a new stream gets the next unused id.  Equal     *)
(* streams get equal digests and distinct streams distinct ones; the order *)
(* of two digests (used by the sorts) is the order of their ids.           *)
(***************************************************************************)
EXTENDS Integers, Sequences, FiniteSets, TLC

VARIABLES
    htab,       \* deterministic_hash: Hash stream -> digest id, as hashed so far
    pc,         \* position of the running entry point
    max_size,   \* generate_graphs: the argument
    hashes,     \* generate_graphs: the Store, signature -> Vec of graphs
    stack,      \* recursive_generate: the active calls, innermost last
    cand,       \* recursive_generate: new_graph of the running iteration
    ret,        \* add_element_to_hashes: the value the last call returned
    queries,    \* history: the number of calls of add_element_to_hashes so far
    expansions, \* history: the number of calls of recursive_generate so far
    depth_max,  \* history: the largest number of nested recursive_generate calls
    result,     \* generate_graphs: whether it returned, and the mapping returned
    graph,      \* k_wl: the graph argument of the first call
    relabeled,  \* k_wl: the graph argument of the second call
    k,          \* k_wl: the argument k
    iterations, \* k_wl: the argument iterations
    out1,       \* k_wl: outcome of the first call
    out2        \* k_wl: outcome of the second call

vars == <<htab, pc, max_size, hashes, stack, cand, ret, queries, expansions,
          depth_max, result, graph, relabeled, k, iterations, out1, out2>>

---------------------------------------------------------------------------
(* Bounds of the model *)

\* generate_graphs is run with every max_size in 0 .. MaxSize
MaxSize == 4
\* the size at which the returned families are examined
FamilySize == 6
\* k_wl is called on every graph with at most MaxNodes nodes
MaxNodes == 3
\* k_wl is called with every k in 0 .. MaxK
MaxK == 2
\* k_wl is called with every iterations in -2 .. MaxIter
MaxIter == 2
\* the Store receives at most MaxInserts try_insert calls
MaxInserts == 3
\* the Store receives every graph with at most StoreNodes nodes
StoreNodes == 2

---------------------------------------------------------------------------
(* Graphs *)

\* a function or sequence built once, as the Vec or HashMap the code builds
Built(f) == f @@ <<>>

\* `let x = v; F(x)`: v is evaluated once and F reads the value
Let(v, F(_)) == CHOOSE y \in {F(x) : x \in {v}} : TRUE

\* UnGraph::new_undirected()
EmptyGraph == [n |-> 0, e |-> {}]

\* graph.node_indices(): 0 .. node_count - 1 in creation order
node_indices(g) == Built([i \in 1 .. g.n |-> i - 1])

NodeSet(g) == 0 .. g.n - 1

\* graph.add_node(()): the new node gets the next index
add_node(g) == [n |-> g.n + 1, e |-> g.e]

\* graph.contains_edge(a, b)
contains_edge(g, a, b) == {a, b} \in g.e

\* graph.neighbors(node), as a sequence (its order is the order of the nodes;
\* every use sorts or counts it)
neighbors(g, v) == SelectSeq(node_indices(g), LAMBDA w : w # v /\ {v, w} \in g.e)

\* every simple undirected graph on the nodes 0 .. n-1
GraphsOn(n) ==
    LET pairs == {{a, b} : a, b \in 0 .. n - 1} \ {{a} : a \in 0 .. n - 1}
    IN  {[n |-> n, e |-> es] : es \in SUBSET pairs}

\* the graph g with node v renamed p[v]
Relabel(g, p) == [n |-> g.n, e |-> {{p[a] : a \in ed} : ed \in g.e}]

\* the degree of every node, node v at position v + 1
Degrees(g) ==
    Built([i \in 1 .. g.n |-> Cardinality({ed \in g.e : (i - 1) \in ed})])

\* whether the matching m of the nodes 0 .. Len(m) - 1 of a (node v to m[v + 1])
\* extends to an isomorphism from a to b: the next node is matched with a free
\* node of b of its degree that keeps every edge and non-edge to the matched ones
RECURSIVE Matches(_, _, _, _, _)
Matches(a, b, da, db, m) ==
    LET v == Len(m)
    IN  IF v = a.n THEN TRUE
        ELSE \E w \in NodeSet(b) \ {m[i] : i \in 1 .. v} :
                /\ da[v + 1] = db[w + 1]
                /\ \A u \in 0 .. v - 1 : ({u, v} \in a.e) <=> ({m[u + 1], w} \in b.e)
                /\ Matches(a, b, da, db, Append(m, w))

\* variant: an oracle that only recognises the same labeling
MutIsIsomorphicIdentical(a, b) == a = b

\* petgraph::algo::is_isomorphic: exact graph isomorphism, true exactly when
\* some bijection of the nodes maps the edges of a onto the edges of b
petgraph_is_isomorphic(a, b) ==
    /\ a.n = b.n
    /\ Cardinality(a.e) = Cardinality(b.e)
    /\ Matches(a, b, Degrees(a), Degrees(b), <<>>)

---------------------------------------------------------------------------
(* Strings and the deterministic hash *)

\* usize::to_string: the decimal digits, most significant first
RECURSIVE to_string(_)
to_string(d) ==
    IF d < 10 THEN <<48 + d>> ELSE to_string(d \div 10) \o <<48 + (d % 10)>>

\* Ord of String and of Vec<u8>, Vec<usize>: lexicographic from position i on,
\* a proper prefix first
RECURSIVE LessFrom(_, _, _)
LessFrom(a, b, i) ==
    IF i > Len(a) THEN i <= Len(b)
    ELSE IF i > Len(b) THEN FALSE
    ELSE IF a[i] = b[i] THEN LessFrom(a, b, i + 1)
    ELSE a[i] < b[i]

StrLess(a, b) == LessFrom(a, b, 1)

\* Vec<String>::join("")
RECURSIVE join(_)
join(ss) == IF ss = <<>> THEN <<>> ELSE Head(ss) \o join(Tail(ss))

\* <String as Hash>::hash: the bytes, then 0xff
HashStreamOfString(s) == s \o <<255>>

\* <Vec<(String, usize)> as Hash>::hash: the length, then each pair
RECURSIVE HashStreamOfPairs(_)
HashStreamOfPairs(items) ==
    IF items = <<>> THEN <<>>
    ELSE HashStreamOfString(Head(items)[1]) \o <<Head(items)[2]>>
         \o HashStreamOfPairs(Tail(items))

HashStreamOfCounts(items) == <<Len(items)>> \o HashStreamOfPairs(items)

\* <Vec<usize> as Hash>::hash: the length, then each element
HashStreamOfUsizes(v) == <<Len(v)>> \o v

\* deterministic_hash on a Hash stream: the digest string and the table after
deterministic_hash(tab, stream) ==
    Let(<<tab, stream>>, LAMBDA a :
        IF a[2] \in DOMAIN a[1]
        THEN [s |-> <<256 + a[1][a[2]]>>, tab |-> a[1]]
        ELSE LET id == Cardinality(DOMAIN a[1])
             IN  [s |-> <<256 + id>>, tab |-> a[1] @@ (a[2] :> id)])

---------------------------------------------------------------------------
(* 1-WL: weisfeiler_lehman_graph_hash *)

\* the sorted (label, count) items of one round: counter, then sort by label
sorted_items(labels) ==
    LET first == SelectSeq([i \in 1 .. Len(labels) |-> i],
                           LAMBDA i : \A j \in 1 .. i - 1 : labels[j] # labels[i])
        keys == SortSeq([r \in 1 .. Len(first) |-> labels[first[r]]], StrLess)
    IN  [r \in 1 .. Len(keys) |->
            <<keys[r], Cardinality({i \in 1 .. Len(labels) : labels[i] = keys[r]})>>]

\* the inner loop over the nodes from v on: acc = [tab, labels] of the nodes done
RECURSIVE new_labels(_, _, _, _)
new_labels(g, node_labels, v, acc) ==
    IF v >= g.n THEN acc
    ELSE LET nb == neighbors(g, v)
             neighbor_labels ==
                 SortSeq([j \in 1 .. Len(nb) |-> node_labels[nb[j] + 1]], StrLess)
             label == node_labels[v + 1] \o join(neighbor_labels)
         IN  Let(deterministic_hash(acc.tab, HashStreamOfString(label)), LAMBDA h :
             Let([tab |-> h.tab, labels |-> Append(acc.labels, h.s)], LAMBDA next :
                 new_labels(g, node_labels, v + 1, next)))

\* the rounds from `round` on: st = [tab, labels, counts]
RECURSIVE wl_rounds(_, _, _, _)
wl_rounds(g, iters, round, st) ==
    IF round >= iters THEN st
    ELSE Let(new_labels(g, st.labels, 0, [tab |-> st.tab, labels |-> <<>>]),
             LAMBDA nl :
             Let([tab |-> nl.tab, labels |-> nl.labels,
                  counts |-> st.counts \o sorted_items(nl.labels)], LAMBDA next :
                 wl_rounds(g, iters, round + 1, next)))

\* variant: a graph hash that runs no round
MutWlNoRounds(tab, g, iters) ==
    deterministic_hash(tab, HashStreamOfCounts(<<>>))

\* weisfeiler_lehman_graph_hash: [s, tab], the digest of the counts of every round
weisfeiler_lehman_graph_hash(tab, g, iters) ==
    LET degrees == Built([i \in 1 .. g.n |-> Len(neighbors(g, i - 1))])
        init == [tab |-> tab,
                 labels |-> Built([i \in 1 .. g.n |-> to_string(degrees[i])]),
                 counts |-> <<>>]
    IN  Let(init, LAMBDA st0 :
        Let(wl_rounds(g, iters, 0, st0), LAMBDA st :
            deterministic_hash(st.tab, HashStreamOfCounts(st.counts))))

---------------------------------------------------------------------------
(* k-WL, k >= 2 *)

\* generate_tuples: every k-tuple of nodes, in the order the recursion pushes them
RECURSIVE generate_tuples(_, _, _)
generate_tuples(nodes, kk, current) ==
    IF Len(current) = kk THEN <<current>>
    ELSE LET from(i) == generate_tuples(nodes, kk, Append(current, nodes[i]))
             RECURSIVE all(_)
             all(i) == IF i > Len(nodes) THEN <<>> ELSE from(i) \o all(i + 1)
         IN  all(1)

\* atomic_type: the adjacency bits of the pairs (i, j), i < j, of the tuple
atomic_type(k_tuple, g) ==
    LET kk == Len(k_tuple)
        RECURSIVE row(_, _)
        row(i, j) == IF j > kk THEN <<>>
                     ELSE <<IF contains_edge(g, k_tuple[i], k_tuple[j]) THEN 1 ELSE 0>>
                          \o row(i, j + 1)
        RECURSIVE rows(_)
        rows(i) == IF i > kk THEN <<>> ELSE row(i, i + 1) \o rows(i + 1)
    IN  rows(1)

\* get_neighbors: the tuple with position index replaced by every node
get_neighbors(k_tuple, index, graph_nodes) ==
    [j \in 1 .. Len(graph_nodes) |-> [k_tuple EXCEPT ![index] = graph_nodes[j]]]

\* colors by sorted-key enumeration: a tuple's color is the rank of its key,
\* keys[i] being the key of k_tuples[i]
ColorsByKey(k_tuples, keys) ==
    LET index == 1 .. Len(k_tuples)
        first == {i \in index : \A j \in 1 .. i - 1 : keys[j] # keys[i]}
        rank == Built([i \in index |->
                          Cardinality({j \in first : StrLess(keys[j], keys[i])})])
    IN  Built([t \in {k_tuples[i] : i \in index} |->
                  rank[CHOOSE i \in index : k_tuples[i] = t]])

\* variant: a composite signature whose multisets are left in node order
MutRefineSignatureUnsorted(k_tuple, nodes, colors) ==
    LET multiset(i) ==
            LET nbrs == get_neighbors(k_tuple, i, nodes)
            IN  [j \in 1 .. Len(nbrs) |-> colors[nbrs[j]]]
        RECURSIVE ext(_)
        ext(i) == IF i > Len(k_tuple) THEN <<>> ELSE multiset(i) \o ext(i + 1)
    IN  <<colors[k_tuple]>> \o ext(1)

\* the composite signature of a tuple: own color, then per position the sorted colors
refine_signature(k_tuple, nodes, colors) ==
    LET multiset(i) ==
            LET nbrs == get_neighbors(k_tuple, i, nodes)
            IN  SortSeq([j \in 1 .. Len(nbrs) |-> colors[nbrs[j]]], <)
        RECURSIVE ext(_)
        ext(i) == IF i > Len(k_tuple) THEN <<>> ELSE multiset(i) \o ext(i + 1)
    IN  <<colors[k_tuple]>> \o ext(1)

\* the refinement loop from `round` on, with its early exit on a fixed point
RECURSIVE refine(_, _, _, _, _)
refine(nodes, k_tuples, colors, round, iters) ==
    IF round >= iters THEN colors
    ELSE LET sigs == Built([i \in 1 .. Len(k_tuples) |->
                               refine_signature(k_tuples[i], nodes, colors)])
             new_colors == ColorsByKey(k_tuples, sigs)
         IN  IF new_colors = colors THEN colors
             ELSE refine(nodes, k_tuples, new_colors, round + 1, iters)

\* variant: argument checks without the check of iterations
MutInvalidArgumentsKOnly(kk, its) == kk < 1

\* k_wl: the two argument checks that panic
invalid_arguments(kk, its) == kk < 1 \/ (its # -1 /\ its < 1)

\* k_wl: [panic, s, tab]; s is the signature when the call did not panic
k_wl(tab, g, kk, its) ==
    IF invalid_arguments(kk, its)
    THEN [panic |-> TRUE, s |-> <<>>, tab |-> tab]
    ELSE LET iters == IF its = -1 THEN g.n ELSE its
         IN  IF kk = 1
             THEN Let(weisfeiler_lehman_graph_hash(tab, g, iters), LAMBDA h :
                      [panic |-> FALSE, s |-> h.s, tab |-> h.tab])
             ELSE LET nodes == node_indices(g)
                      k_tuples == generate_tuples(nodes, kk, <<>>)
                      types == Built([i \in 1 .. Len(k_tuples) |->
                                         atomic_type(k_tuples[i], g)])
                      colors == refine(nodes, k_tuples, ColorsByKey(k_tuples, types),
                                       0, iters)
                      final_multiset ==
                          SortSeq([i \in 1 .. Len(k_tuples) |-> colors[k_tuples[i]]], <)
                  IN  Let(deterministic_hash(tab, HashStreamOfUsizes(final_multiset)),
                          LAMBDA h : [panic |-> FALSE, s |-> h.s, tab |-> h.tab])

---------------------------------------------------------------------------
(* generate_graphs *)

\* variant: an insertion that never asks the oracle
MutBucketInsertAlways(h, element, hs) ==
    Let(h, LAMBDA sig :
    Let(IF sig.s \in DOMAIN hs THEN hs ELSE hs @@ (sig.s :> <<>>), LAMBDA with_key :
        [ret |-> TRUE,
         hashes |-> [with_key EXCEPT ![sig.s] = Append(@, element)],
         tab |-> sig.tab]))

\* add_element_to_hashes after the signature h = [s, tab] of element is computed:
\* the bucket is created if absent, searched for an isomorphic member, appended to
bucket_insert(h, element, hs) ==
    Let(h, LAMBDA sig :
    Let(IF sig.s \in DOMAIN hs THEN hs ELSE hs @@ (sig.s :> <<>>), LAMBDA with_key :
    Let(~ \E i \in 1 .. Len(with_key[sig.s]) :
              petgraph_is_isomorphic(element, with_key[sig.s][i]), LAMBDA to_add :
        [ret |-> to_add,
         hashes |-> IF to_add
                    THEN [with_key EXCEPT ![sig.s] = Append(@, element)]
                    ELSE with_key,
         tab |-> sig.tab])))

\* add_element_to_hashes: [ret, hashes, tab]
add_element_to_hashes(tab, element, hs) ==
    bucket_insert(k_wl(tab, element, 1, -1), element, hs)

\* variant: a pruning test that lets one more node through
MutPrunedOneLater(new_starting_graph, size) == new_starting_graph.n > size + 1

\* recursive_generate: the pruning test on the graph with the new node
pruned(new_starting_graph, size) == new_starting_graph.n > size

\* variant: a loop bound that misses the last combination
MutNumCombinationsShort(new_starting_graph) == 2 ^ (new_starting_graph.n - 1) - 1

\* recursive_generate: num_combinations, edges holding one pair per older node
num_combinations(new_starting_graph) == 2 ^ (new_starting_graph.n - 1)

\* variant: a candidate that never gets an edge
MutNewGraphNoEdges(new_starting_graph, i) == new_starting_graph

\* new_graph of iteration i: bit j of i adds the edge (new_node, j)
new_graph(new_starting_graph, i) ==
    LET new_node == new_starting_graph.n - 1
        chosen == {j \in 0 .. new_node - 1 : (i \div (2 ^ j)) % 2 = 1}
    IN  [n |-> new_starting_graph.n,
         e |-> new_starting_graph.e \cup {{new_node, j} : j \in chosen}]

\* variant: a filter without the drop of the buckets of one graph
MutFamilyFilterKeepsSingles(hs, size) ==
    LET filtered_graphs(key) == SelectSeq(hs[key], LAMBDA g : g.n = size)
        kept == {key \in DOMAIN hs : filtered_graphs(key) # <<>>}
    IN  [key \in kept |-> filtered_graphs(key)]

\* the Family Filter: the mapping after the loop over hash_keys
family_filter(hs, size) ==
    LET filtered_graphs(key) == SelectSeq(hs[key], LAMBDA g : g.n = size)
        kept == {key \in DOMAIN hs :
                    ~ (Len(hs[key]) <= 1) /\ filtered_graphs(key) # <<>>}
    IN  [key \in kept |-> filtered_graphs(key)]

NoOutcome == [panic |-> FALSE, s |-> <<>>]
NoResult == [returned |-> FALSE, map |-> <<>>]

hist_vars == <<queries, expansions, depth_max>>
kwl_vars == <<graph, relabeled, k, iterations, out1, out2>>

InitCommon ==
    /\ htab = <<>>
    /\ hashes = <<>>
    /\ stack = <<>>
    /\ cand = EmptyGraph
    /\ ret = FALSE
    /\ queries = 0
    /\ expansions = 0
    /\ depth_max = 0
    /\ result = NoResult
    /\ out1 = NoOutcome
    /\ out2 = NoOutcome
    /\ relabeled = EmptyGraph

\* a call generate_graphs(max_size)
InitGenerate ==
    /\ InitCommon
    /\ max_size \in 0 .. MaxSize
    /\ pc = "start"
    /\ graph = EmptyGraph /\ k = 0 /\ iterations = 0

\* generate_graphs, max_size < 1: panic before anything is built
Panic ==
    /\ pc = "start"
    /\ max_size < 1
    /\ pc' = "panicked"
    /\ UNCHANGED <<htab, max_size, hashes, stack, cand, ret, hist_vars, result, kwl_vars>>

\* generate_graphs: the starting graph is built and inserted; its expansion is next
Start ==
    /\ pc = "start"
    /\ ~ (max_size < 1)
    /\ LET starting_graph == add_node(EmptyGraph)
       IN  \E r \in {add_element_to_hashes(htab, starting_graph, hashes)} :
              /\ hashes' = r.hashes
              /\ htab' = r.tab
              /\ ret' = r.ret
              /\ cand' = starting_graph
    /\ queries' = queries + 1
    /\ pc' = "call"
    /\ UNCHANGED <<max_size, stack, expansions, depth_max, result, kwl_vars>>

\* recursive_generate(cand) is entered: the clone with the new node
Enter ==
    /\ pc = "call"
    /\ stack' = Append(stack, [g |-> add_node(cand), i |-> 0])
    /\ expansions' = expansions + 1
    /\ depth_max' = IF Len(stack) + 1 > depth_max THEN Len(stack) + 1 ELSE depth_max
    /\ pc' = "check"
    /\ UNCHANGED <<htab, max_size, hashes, cand, ret, queries, result, kwl_vars>>

\* recursive_generate: the new graph is larger than max_size, return
Prune ==
    /\ pc = "check"
    /\ pruned(stack[Len(stack)].g, max_size)
    /\ stack' = SubSeq(stack, 1, Len(stack) - 1)
    /\ pc' = IF Len(stack) = 1 THEN "filter" ELSE "loop"
    /\ UNCHANGED <<htab, max_size, hashes, cand, ret, hist_vars, result, kwl_vars>>

\* recursive_generate: the new graph fits, the loop over the combinations begins
Proceed ==
    /\ pc = "check"
    /\ ~ pruned(stack[Len(stack)].g, max_size)
    /\ pc' = "loop"
    /\ UNCHANGED <<htab, max_size, hashes, stack, cand, ret, hist_vars, result,
                   kwl_vars>>

\* variant: a loop that recurses whatever the insertion returned
MutAfterInsertAlwaysRecurse(inserted) == "call"

\* where a loop iteration goes once add_element_to_hashes has returned
after_insert(inserted) == IF inserted THEN "call" ELSE "loop"

\* one iteration of the loop over the edge combinations: build, insert, maybe recurse
Candidate ==
    /\ pc = "loop"
    /\ LET top == stack[Len(stack)]
       IN  /\ top.i < num_combinations(top.g)
           /\ \E g \in {new_graph(top.g, top.i)} :
                  \E r \in {add_element_to_hashes(htab, g, hashes)} :
                     /\ cand' = g
                     /\ hashes' = r.hashes
                     /\ htab' = r.tab
                     /\ ret' = r.ret
                     /\ pc' = after_insert(r.ret)
           /\ stack' = [stack EXCEPT ![Len(stack)].i = top.i + 1]
    /\ queries' = queries + 1
    /\ UNCHANGED <<max_size, expansions, depth_max, result, kwl_vars>>

\* the loop is over: recursive_generate returns to its caller
Return ==
    /\ pc = "loop"
    /\ LET top == stack[Len(stack)]
       IN  ~ (top.i < num_combinations(top.g))
    /\ stack' = SubSeq(stack, 1, Len(stack) - 1)
    /\ pc' = IF Len(stack) = 1 THEN "filter" ELSE "loop"
    /\ UNCHANGED <<htab, max_size, hashes, cand, ret, hist_vars, result, kwl_vars>>

\* the Family Filter, applied to hashes in place, and the return of hashes
Filter ==
    /\ pc = "filter"
    /\ \E filtered \in {family_filter(hashes, max_size)} :
          /\ hashes' = filtered
          /\ result' = [returned |-> TRUE, map |-> filtered]
    /\ pc' = "done"
    /\ UNCHANGED <<htab, max_size, stack, cand, ret, hist_vars, kwl_vars>>

NextGenerate == Panic \/ Start \/ Enter \/ Prune \/ Proceed \/ Candidate \/ Return \/ Filter

---------------------------------------------------------------------------
(* k_wl called on a graph and on a relabeling of it *)

GraphsUpTo(n) == UNION {GraphsOn(m) : m \in 0 .. n}

\* a call k_wl(graph, k, iterations)
InitKwl ==
    /\ InitCommon
    /\ max_size = 0
    /\ pc = "kwl_start"
    /\ graph \in GraphsUpTo(MaxNodes)
    /\ k \in 0 .. MaxK
    /\ iterations \in -2 .. MaxIter

\* k_wl(graph, k, iterations)
KwlCall ==
    /\ pc = "kwl_start"
    /\ \E r \in {k_wl(htab, graph, k, iterations)} :
          /\ out1' = [panic |-> r.panic, s |-> r.s]
          /\ htab' = r.tab
          /\ pc' = IF r.panic THEN "kwl_panicked" ELSE "kwl_returned"
    /\ UNCHANGED <<max_size, hashes, stack, cand, ret, hist_vars, result, graph,
                   relabeled, k, iterations, out2>>

\* k_wl(relabeled, k, iterations), relabeled a renaming of the nodes of graph
KwlRelabeled ==
    /\ pc = "kwl_returned"
    /\ \E p \in Permutations(NodeSet(graph)) :
          \E r \in {k_wl(htab, Relabel(graph, p), k, iterations)} :
              /\ relabeled' = Relabel(graph, p)
              /\ out2' = [panic |-> r.panic, s |-> r.s]
              /\ htab' = r.tab
    /\ pc' = "kwl_compared"
    /\ UNCHANGED <<max_size, hashes, stack, cand, ret, hist_vars, result, graph, k,
                   iterations, out1>>

NextKwl == KwlCall \/ KwlRelabeled

---------------------------------------------------------------------------
(* The Store under arbitrary insertions *)

\* the smallest graphs 1-WL does not tell apart: two triangles and the 6-cycle,
\* the 6-cycle in two labelings
TwoTriangles ==
    [n |-> 6, e |-> {{0, 1}, {1, 2}, {0, 2}, {3, 4}, {4, 5}, {3, 5}}]

SixCycle ==
    [n |-> 6, e |-> {{0, 1}, {1, 2}, {2, 3}, {3, 4}, {4, 5}, {0, 5}}]

SixCycleRelabeled ==
    [n |-> 6, e |-> {{0, 2}, {1, 2}, {1, 3}, {3, 4}, {4, 5}, {0, 5}}]

\* the graphs try_insert is called on
Elements == GraphsUpTo(StoreNodes) \cup {TwoTriangles, SixCycle, SixCycleRelabeled}

InitStore ==
    /\ InitCommon
    /\ max_size = 0
    /\ pc = "store"
    /\ graph = EmptyGraph /\ k = 0 /\ iterations = 0

\* add_element_to_hashes(element, hashes) on any graph
TryInsert ==
    /\ pc = "store"
    /\ queries < MaxInserts
    /\ \E element \in Elements :
          \E r \in {add_element_to_hashes(htab, element, hashes)} :
              /\ cand' = element
              /\ hashes' = r.hashes
              /\ htab' = r.tab
              /\ ret' = r.ret
    /\ queries' = queries + 1
    /\ UNCHANGED <<pc, max_size, stack, expansions, depth_max, result, kwl_vars>>

---------------------------------------------------------------------------
(* Specifications *)

Init == InitGenerate \/ InitKwl

Next == NextGenerate \/ NextKwl

\* the two public functions, each called once
Spec == Init /\ [][Next]_vars

\* the same, a running generate_graphs always taking its next step
FairSpec == Spec /\ WF_vars(NextGenerate)

\* the Store, starting empty, under any sequence of insertions
SpecStore == InitStore /\ [][TryInsert]_vars

\* generate_graphs up to the size where buckets hold several graphs
InitFamilies ==
    /\ InitCommon
    /\ max_size \in 0 .. FamilySize
    /\ pc = "start"
    /\ graph = EmptyGraph /\ k = 0 /\ iterations = 0

\* the Store as generate_graphs fills it, or under any sequence of insertions
SpecFamilies == (InitFamilies \/ InitStore) /\ [][NextGenerate \/ TryInsert]_vars

---------------------------------------------------------------------------
(* Properties *)

\* two graphs are isomorphic: some renaming of the nodes of a gives b
Isomorphic(a, b) ==
    /\ a.n = b.n
    /\ Cardinality(a.e) = Cardinality(b.e)
    /\ \E p \in Permutations(NodeSet(a)) : Relabel(a, p) = b

\* the graphs a Store holds, and those of them with n nodes
Retained(hs) == UNION {{hs[key][i] : i \in 1 .. Len(hs[key])} : key \in DOMAIN hs}

RetainedOn(hs, n) == {g \in Retained(hs) : g.n = n}

\* the Store hs after g is appended to the bucket of key
Appended(hs, key, g) ==
    IF key \in DOMAIN hs THEN [hs EXCEPT ![key] = Append(@, g)]
    ELSE hs @@ (key :> <<g>>)

\* the positions of a call generate_graphs(max_size)
GeneratePcs == {"start", "panicked", "call", "check", "loop", "filter", "done"}

\* C1: at every point of a run, no two graphs sharing a bucket of the Store are
\* isomorphic to each other.
C1_BucketInvariant ==
    \A key \in DOMAIN hashes :
        \A i, j \in 1 .. Len(hashes[key]) :
            i < j => ~ Isomorphic(hashes[key][i], hashes[key][j])

\* a bucket holds two graphs while generate_graphs is still inserting
C1_Witness ==
    /\ pc = "loop"
    /\ ret = TRUE
    /\ \E key \in DOMAIN hashes :
          /\ Len(hashes[key]) >= 2
          /\ hashes[key][Len(hashes[key])] = cand

\* C2: a try_insert of a graph isomorphic to a retained graph returns false and
\* leaves the Store as it was; a try_insert that returns true leaves the Store
\* equal to the old one with the graph appended to the bucket of its signature.
C2_InsertIdempotent ==
    [][queries' = queries + 1 =>
          /\ (\E r \in Retained(hashes) : Isomorphic(cand', r))
                => (ret' = FALSE /\ hashes' = hashes)
          /\ ret' = TRUE
                => hashes' = Appended(hashes, k_wl(htab', cand', 1, -1).s, cand')]_vars

\* a relabeled copy of a retained graph, not the retained graph itself, was
\* submitted and rejected, its bucket holding two graphs
C2_Witness ==
    /\ pc = "store"
    /\ ret = FALSE
    /\ cand \notin Retained(hashes)
    /\ \E key \in DOMAIN hashes :
          /\ Len(hashes[key]) = 2
          /\ Isomorphic(cand, hashes[key][2])

\* C3: when the recursion of generate_graphs(N) is over, every graph on n <= N
\* nodes is isomorphic to exactly one retained graph; there are 4 retained
\* graphs on 3 nodes and 11 on 4 nodes.
C3_EnumerationComplete ==
    pc = "filter" =>
        \A n \in 1 .. max_size :
            /\ \A h \in GraphsOn(n) :
                  Cardinality({r \in Retained(hashes) : Isomorphic(h, r)}) = 1
            /\ n = 3 => Cardinality(RetainedOn(hashes, n)) = 4
            /\ n = 4 => Cardinality(RetainedOn(hashes, n)) = 11

\* the recursion of generate_graphs(4) is over with 4 and 11 retained graphs
C3_Witness ==
    /\ pc = "filter"
    /\ max_size = 4
    /\ Cardinality(RetainedOn(hashes, 3)) = 4
    /\ Cardinality(RetainedOn(hashes, 4)) = 11

\* C4: k_wl returns the same signature for a graph and for any relabeling of
\* its nodes, for k = 1 and for k >= 2, whatever valid iterations is passed.
C4_SignatureSound ==
    pc = "kwl_compared" => (~ out2.panic /\ out2.s = out1.s)

\* the tuple refinement ran on a graph and on a different labeling of it
C4_Witness ==
    /\ pc = "kwl_compared"
    /\ k >= 2
    /\ relabeled # graph
    /\ graph.e # {}
    /\ out2.s = out1.s

C6_TwoSignatures ==
    (pc = "filter" /\ max_size = 2) => Cardinality(DOMAIN hashes) = 2

\* C6: before filtering, the Store of generate_graphs(2) holds exactly 3
\* signatures: that of the one-node starting graph and those of the 2 graphs
\* on two nodes (edge, no edge).
C6_ThreeSignatures ==
    (pc = "filter" /\ max_size = 2) =>
        /\ Cardinality(DOMAIN hashes) = 3
        /\ Cardinality({key \in DOMAIN hashes : hashes[key][1].n = 2}) = 2
        /\ Cardinality({key \in DOMAIN hashes : hashes[key][1].n = 1}) = 1

\* the recursion of generate_graphs(2) is over, the Store not yet filtered
C6_Witness ==
    /\ pc = "filter"
    /\ max_size = 2
    /\ Cardinality(RetainedOn(hashes, 2)) = 2

\* C7: generate_graphs with max_size < 1 aborts before any graph is built or
\* inserted and returns nothing; k_wl with k < 1, or with iterations neither -1
\* nor >= 1, aborts without a signature.
C7_ContractAborts ==
    /\ (pc \in GeneratePcs /\ max_size < 1) =>
          /\ pc \in {"start", "panicked"}
          /\ DOMAIN hashes = {}
          /\ DOMAIN htab = {}
          /\ queries = 0
          /\ cand = EmptyGraph
          /\ ~ result.returned
    /\ (pc \in {"kwl_returned", "kwl_panicked", "kwl_compared"}
          /\ (k < 1 \/ (iterations # -1 /\ iterations < 1))) =>
          /\ pc = "kwl_panicked"
          /\ out1.panic
          /\ out1.s = <<>>
          /\ DOMAIN htab = {}

\* k_wl aborted on iterations = 0 with a valid k
C7_Witness ==
    /\ pc = "kwl_panicked"
    /\ k >= 1
    /\ iterations = 0
    /\ out1.panic

\* the steps of C8: recursive_generate is entered only on the graph that
\* try_insert was last called on and only if that call returned true; every
\* call of try_insert is one call, followed by an expansion exactly if it
\* returned true
C8_Step ==
    /\ expansions' # expansions =>
          /\ ret = TRUE
          /\ cand \in Retained(hashes)
          /\ expansions' = expansions + 1
          /\ queries' = queries
          /\ stack' = Append(stack, [g |-> add_node(cand), i |-> 0])
    /\ queries' # queries =>
          /\ queries' = queries + 1
          /\ expansions' = expansions
          /\ ret' <=> pc' = "call"

\* the candidates built from the retained graphs on at most n nodes: 2^m for
\* each retained graph on m nodes
RECURSIVE CandidatesUpTo(_, _)
CandidatesUpTo(hs, n) ==
    IF n < 1 THEN 0
    ELSE Cardinality(RetainedOn(hs, n)) * 2 ^ n + CandidatesUpTo(hs, n - 1)

\* C8: try_insert is called before any recursion on a candidate, exactly once
\* per candidate built; no graph is expanded unless its try_insert returned
\* true.  At the end of the recursion the calls are the starting graph plus
\* one per candidate, and the expansions one per retained graph.
C8_QueryBeforeRecurse ==
    /\ [][C8_Step]_vars
    /\ [](pc = "filter" =>
            /\ queries = 1 + CandidatesUpTo(hashes, max_size - 1)
            /\ expansions = Cardinality(Retained(hashes)))

\* a candidate was rejected and the loop goes on without expanding it
C8_Witness ==
    /\ pc = "loop"
    /\ ret = FALSE
    /\ queries > expansions + 1
    /\ cand \notin Retained(hashes)

\* the bounds of C9 on a run of generate_graphs
C9_Bounded ==
    pc \in GeneratePcs =>
        /\ Len(stack) <= max_size
        /\ depth_max <= max_size
        /\ pc \in {"filter", "done"} => depth_max = max_size
        /\ cand.n <= max_size
        /\ \A g \in Retained(hashes) : g.n <= max_size

\* C9: for every max_size >= 1, generate_graphs eventually completes; the
\* recursion depth never exceeds max_size and is exactly max_size on the
\* deepest branch; no graph with more than max_size nodes is ever submitted to
\* the Store.
C9_Terminates ==
    /\ []C9_Bounded
    /\ (pc = "start" /\ max_size >= 1) ~> pc = "done"

\* generate_graphs completed after a recursion of depth max_size
C9_Witness ==
    /\ pc = "done"
    /\ max_size >= 3
    /\ depth_max = max_size
    /\ result.returned

\* C10: for max_size from 1 to 4, every bucket holds exactly one graph before
\* filtering and the mapping generate_graphs returns is empty.
C10_SmallSizesEmpty ==
    max_size \in 1 .. 4 =>
        /\ pc = "filter" => \A key \in DOMAIN hashes : Len(hashes[key]) = 1
        /\ pc = "done" => (result.returned /\ DOMAIN result.map = {})

\* generate_graphs(4) returned the empty mapping
C10_Witness ==
    /\ pc = "done"
    /\ max_size = 4
    /\ result.returned
    /\ DOMAIN result.map = {}

====
